---- MODULE Spec2Model ----
(***************************************************************************)
(* Model of VADER_Sentiment_Engine.py: the AyxPlugin / IncomingInterface   *)
(* pair that appends five sentiment fields to every record of one incoming *)
(* connection.  The engine (host) drives the callbacks; the output anchor, *)
(* the RecordInfo / RecordCreator / RecordCopier objects of the SDK and    *)
(* the sentiment analyzer are the collaborators the callbacks act upon.    *)
(*                                                                         *)
(* Strings that the code inspects character by character (the analyzer's   *)
(* textual result, field contents) are sequences of one-character strings. *)
(* Field names and message texts are only compared, and are TLA+ strings.  *)
(* A double is an integer count of ten-thousandths (VADER rounds its       *)
(* scores to 3 and 4 decimals).                                            *)
(***************************************************************************)
EXTENDS Integers, Sequences, FiniteSets, TLC

VARIABLES pc, field_selection, output_anchor, single_input,
          record_info_in, record_info_out, record_creator, record_copier,
          handles, input_field, anchorLog, engineLog,
          inRows, lastCall, lastResult, inProgress

vars == <<pc, field_selection, output_anchor, single_input,
          record_info_in, record_info_out, record_creator, record_copier,
          handles, input_field, anchorLog, engineLog,
          inRows, lastCall, lastResult, inProgress>>

-----------------------------------------------------------------------------
(* Bounds of the exploration.                                              *)

(* The number of record deliveries and progress reports of one stream.     *)
MaxCalls == 3

-----------------------------------------------------------------------------
(* Field values.                                                           *)

Null == [k |-> "null", s |-> <<>>, v |-> 0]

Str(chars) == [k |-> "str", s |-> chars, v |-> 0]

Dbl(n) == [k |-> "dbl", s |-> <<>>, v |-> n]

Digits == <<"0", "1", "2", "3", "4", "5", "6", "7", "8", "9">>

IsDigit(c) == \E d \in 1..10 : Digits[d] = c

DigitVal(c) == (CHOOSE d \in 1..10 : Digits[d] = c) - 1

RECURSIVE NatStr(_)
NatStr(n) == IF n < 10 THEN <<Digits[n + 1]>>
             ELSE NatStr(n \div 10) \o <<Digits[(n % 10) + 1]>>

RECURSIVE StripZeros(_)
StripZeros(ds) == IF Len(ds) > 1 /\ ds[Len(ds)] = "0"
                  THEN StripZeros(SubSeq(ds, 1, Len(ds) - 1))
                  ELSE ds

(* Python's str() of a float that is a multiple of 0.0001: sign, integer   *)
(* part, point, the decimals without trailing zeros (at least one).        *)
FloatStr(m) ==
    LET a  == IF m < 0 THEN 0 - m ELSE m
        fp == a % 10000
        ds == <<Digits[(fp \div 1000) + 1], Digits[((fp \div 100) % 10) + 1],
                Digits[((fp \div 10) % 10) + 1], Digits[(fp % 10) + 1]>>
    IN  (IF m < 0 THEN <<"-">> ELSE <<>>) \o NatStr(a \div 10000)
        \o <<".">> \o StripZeros(ds)

-----------------------------------------------------------------------------
(* The analyzer and the textual form of its result.                        *)

TextGood == <<"g", "o", "o", "d">>

TextBad == <<"b", "a", "d">>

TextMixed == <<"o", "k", " ", "b", "u", "t">>

(* polarity_scores: neg, neu, pos in ten-thousandths (rounded to 3         *)
(* decimals by the analyzer), compound in ten-thousandths.  A text without *)
(* lexicon words is fully neutral.                                         *)
polarity_scores(sentence) ==
    IF sentence = TextGood
    THEN [neg |-> 0, neu |-> 0, pos |-> 10000, compound |-> 4404]
    ELSE IF sentence = TextBad
    THEN [neg |-> 10000, neu |-> 0, pos |-> 0, compound |-> 0 - 5423]
    ELSE IF sentence = TextMixed
    THEN [neg |-> 2630, neu |-> 3230, pos |-> 4140, compound |-> 1500]
    ELSE [neg |-> 0, neu |-> 10000, pos |-> 0, compound |-> 0]

(* str(snt) of the dict {'neg': .., 'neu': .., 'pos': .., 'compound': ..}  *)
DictStr(snt) ==
    <<"{", "'", "n", "e", "g", "'", ":", " ">> \o FloatStr(snt.neg)
    \o <<",", " ", "'", "n", "e", "u", "'", ":", " ">> \o FloatStr(snt.neu)
    \o <<",", " ", "'", "p", "o", "s", "'", ":", " ">> \o FloatStr(snt.pos)
    \o <<",", " ", "'", "c", "o", "m", "p", "o", "u", "n", "d", "'", ":", " ">>
    \o FloatStr(snt.compound) \o <<"}">>

RECURSIVE CountDigits(_, _)
CountDigits(s, i) == IF i <= Len(s) /\ IsDigit(s[i])
                     THEN 1 + CountDigits(s, i + 1) ELSE 0

RECURSIVE CountDots(_, _)
CountDots(s, i) == IF i <= Len(s) /\ s[i] = "."
                   THEN 1 + CountDots(s, i + 1) ELSE 0

(* One match attempt of the pattern [-+]?\d*\.*\d+ at position i: the      *)
(* position after the match, or 0 when there is none.  The quantifiers are *)
(* greedy and give back one repetition at a time: the first success in the *)
(* order (sign taken, most digits, most dots) is the match, and the final  *)
(* \d+ takes every digit it finds.                                         *)
MatchEnd(s, i) ==
    LET sgMax == IF i <= Len(s) /\ s[i] \in {"-", "+"} THEN 1 ELSE 0
        Cands == UNION { UNION { { <<sg, d1, dt>> :
                                     dt \in {x \in 0..CountDots(s, i + sg + d1) :
                                                CountDigits(s, i + sg + d1 + x) >= 1} } :
                                 d1 \in 0..CountDigits(s, i + sg) } :
                         sg \in 0..sgMax }
        Before(c, d) == \/ c[1] > d[1]
                        \/ c[1] = d[1] /\ c[2] > d[2]
                        \/ c[1] = d[1] /\ c[2] = d[2] /\ c[3] >= d[3]
    IN  IF Cands = {} THEN 0
        ELSE LET c == CHOOSE x \in Cands : \A y \in Cands : Before(x, y)
                 l == i + c[1] + c[2] + c[3]
             IN  l + CountDigits(s, l)

(* re.findall: leftmost non-overlapping matches, scanning from position i. *)
RECURSIVE FindAllFrom(_, _)
FindAllFrom(s, i) ==
    IF i > Len(s) THEN <<>>
    ELSE LET e == MatchEnd(s, i)
         IN  IF e = 0 THEN FindAllFrom(s, i + 1)
             ELSE <<SubSeq(s, i, e - 1)>> \o FindAllFrom(s, e)

findall(s) == FindAllFrom(s, 1)

-----------------------------------------------------------------------------
(* The SDK objects the callbacks use: RecordInfo, Field, RecordCreator,    *)
(* RecordCopier.  A RecordInfo is a sequence of [name, type, size]; a      *)
(* Field is used through its position in its RecordInfo; a record is the   *)
(* sequence of its field values.                                           *)

data_size == 100

FieldDef(name, type, size) == [name |-> name, type |-> type, size |-> size]

HasField(info, name) == \E i \in 1..Len(info) : info[i].name = name

(* add_field on a RecordInfo with lenient naming: a name already in use    *)
(* is made unique with a numeric suffix.                                   *)
UniqueName(info, name) ==
    IF ~HasField(info, name) THEN name
    ELSE LET k == CHOOSE j \in 2..(Len(info) + 2) :
                      /\ ~HasField(info, name \o ToString(j))
                      /\ \A h \in 2..(j - 1) : HasField(info, name \o ToString(h))
         IN  name \o ToString(k)

add_field(info, name, type, size) ==
    Append(info, FieldDef(UniqueName(info, name), type, size))

(* get_field_num: position of the first field of that name, 0 when there   *)
(* is none (the SDK then raises).                                          *)
get_field_num(info, name) ==
    IF HasField(info, name)
    THEN CHOOSE i \in 1..Len(info) :
             /\ info[i].name = name
             /\ \A j \in 1..(i - 1) : info[j].name # name
    ELSE 0

(* Variant of BuildOutputInfo: Neutral_Score is added before               *)
(* Negative_Score.                                                         *)
BuildOutputInfoReordered(info_in) ==
    LET r1 == add_field(info_in, "Sentiment_Output", "v_wstring", data_size)
        r2 == add_field(r1, "Neutral_Score", "double", 0)
        r3 == add_field(r2, "Negative_Score", "double", 0)
        r4 == add_field(r3, "Positive_Score", "double", 0)
    IN  add_field(r4, "Compound_Score", "double", 0)

(* record_info_in.clone() followed by the five add_field calls.            *)
BuildOutputInfo(info_in) ==
    LET r1 == add_field(info_in, "Sentiment_Output", "v_wstring", data_size)
        r2 == add_field(r1, "Negative_Score", "double", 0)
        r3 == add_field(r2, "Neutral_Score", "double", 0)
        r4 == add_field(r3, "Positive_Score", "double", 0)
    IN  add_field(r4, "Compound_Score", "double", 0)

NewFieldKeys == <<"Sentiment_score", "Negative_Score", "Neutral_Score",
                  "Positive_Score", "Compound_Score">>

(* The names held by the five parent attributes after __init__.            *)
NewFieldName(key) == IF key = "Sentiment_score" THEN "Sentiment_Output" ELSE key

(* With strict naming add_field raises on a name already in use.           *)
NameClash(info_in) ==
    \E i \in 1..5 : HasField(info_in, NewFieldName(NewFieldKeys[i]))

(* The five cached Field handles: record_info_out[get_field_num(name)].    *)
ResolveHandles(info_out) ==
    [key \in {NewFieldKeys[i] : i \in 1..5} |->
        get_field_num(info_out, NewFieldName(key))]

(* construct_record_creator and RecordCreator.reset: every field unset.    *)
EmptyRecord(info) == [i \in 1..Len(info) |-> Null]

(* Variant of reset: the creator keeps the values of the previous record.  *)
resetSkipped(creator) == creator

(* RecordCreator.reset(): every field of the creator is unset again.       *)
reset(creator) == [i \in 1..Len(creator) |-> Null]

(* RecordCopier.add(index, index) for every input field, done_adding.      *)
BuildCopier(info_in) == {<<i, i>> : i \in 1..Len(info_in)}

(* RecordCopier.copy: the mapped fields of the source into the creator.    *)
CopyRecord(copier, creator, in_record) ==
    [i \in 1..Len(creator) |->
        IF \E m \in copier : m[2] = i
        THEN in_record[(CHOOSE m \in copier : m[2] = i)[1]]
        ELSE creator[i]]

RECURSIVE NatVal(_, _, _)
NatVal(s, i, n) == IF n = 0 THEN 0
                   ELSE 10 * NatVal(s, i, n - 1) + DigitVal(s[i + n - 1])

(* String to double: optional sign, digits, optional point and decimals;   *)
(* unset when the string does not start with a number.                     *)
ParseDouble(s) ==
    LET sg == IF Len(s) >= 1 /\ s[1] \in {"-", "+"} THEN 1 ELSE 0
        d1 == CountDigits(s, 1 + sg)
        pt == IF 1 + sg + d1 <= Len(s) /\ s[1 + sg + d1] = "." THEN 1 ELSE 0
        d2 == IF pt = 1 THEN CountDigits(s, 2 + sg + d1) ELSE 0
        u2 == IF d2 > 4 THEN 4 ELSE d2
        fr == NatVal(s, 2 + sg + d1, u2)
        sc == IF u2 <= 1 THEN 1000 ELSE IF u2 = 2 THEN 100
              ELSE IF u2 = 3 THEN 10 ELSE 1
        m  == NatVal(s, 1 + sg, d1) * 10000 + fr * sc
    IN  IF d1 = 0 /\ d2 = 0 THEN Null
        ELSE Dbl(IF sg = 1 /\ s[1] = "-" THEN 0 - m ELSE m)

(* Field.set_from_string: the string converted to the field's type; a      *)
(* string field keeps at most its capacity.                                *)
set_from_string(info, pos, creator, s) ==
    LET f == info[pos]
        v == IF f.type = "double" THEN ParseDouble(s)
             ELSE Str(IF Len(s) > f.size THEN SubSeq(s, 1, f.size) ELSE s)
    IN  [creator EXCEPT ![pos] = v]

(* Field.get_as_string: None for an unset value, the text of a string, the *)
(* decimal form of a double.                                               *)
get_as_string(value) ==
    IF value.k = "null" THEN Null
    ELSE IF value.k = "dbl" THEN Str(FloatStr(value.v))
    ELSE value

-----------------------------------------------------------------------------
(* Inputs of the callbacks.                                                *)

(* Python states of the attribute field_selection that are not a name:     *)
(* never assigned, and None (the text of an empty element).                *)
NoAttr == "<no attribute>"

PyNone == "<None>"

(* The configuration documents: no FieldSelect element, an empty one, and  *)
(* FieldSelect naming a field.                                             *)
Configs ==
    {[has |-> FALSE, text |-> PyNone], [has |-> TRUE, text |-> PyNone]}
    \cup {[has |-> TRUE, text |-> t] :
             t \in {"comment", "id", "Compound_Score"}}

(* The metadata of the incoming connection: field names are unique.        *)
InputSchemas ==
    { <<FieldDef("id", "double", 8), FieldDef("comment", "v_wstring", 20)>>,
      <<FieldDef("comment", "v_wstring", 20)>>,
      <<FieldDef("comment", "v_wstring", 20), FieldDef("Negative_Score", "double", 8)>>,
      <<FieldDef("Sentiment_Output", "v_wstring", 20), FieldDef("comment", "v_wstring", 20)>> }

FieldValues(f) ==
    IF f.type = "double" THEN {Dbl(15000)}
    ELSE IF f.name = "comment" THEN {Null, Str(TextGood), Str(TextBad)}
    ELSE {Str(TextMixed)}

(* The records that conform to a RecordInfo.                               *)
Records(info) ==
    {r \in [1..Len(info) -> UNION {FieldValues(info[i]) : i \in 1..Len(info)}] :
        \A i \in 1..Len(info) : r[i] \in FieldValues(info[i])}

Percents == {50, 100}

-----------------------------------------------------------------------------
(* Calls on the output anchor and on the engine, in the order made.        *)

AnchorEvent(op, info, rec, pct, ok) ==
    [op |-> op, info |-> info, rec |-> rec, pct |-> pct, ok |-> ok]

(* Variant of AnchorInit: the output metadata is not published.            *)
AnchorInitSkipped(log, info) == log

(* output_anchor.init(record_info_out)                                     *)
AnchorInit(log, info) == Append(log, AnchorEvent("init", info, <<>>, 0, TRUE))

(* Variant of AnchorPush: the record is pushed twice.                      *)
AnchorPushTwice(log, rec, ok) ==
    log \o <<[op |-> "push_record", info |-> <<>>, rec |-> rec, pct |-> 0, ok |-> ok],
             [op |-> "push_record", info |-> <<>>, rec |-> rec, pct |-> 0, ok |-> ok]>>

(* output_anchor.push_record(out_record); ok is the consumer's answer.     *)
AnchorPush(log, rec, ok) == Append(log, AnchorEvent("push_record", <<>>, rec, 0, ok))

(* Variant of AnchorProgress: the value is not forwarded downstream.       *)
AnchorProgressDropped(log, pct) == log

(* output_anchor.update_progress(d_percent)                                *)
AnchorProgress(log, pct) ==
    Append(log, AnchorEvent("update_progress", <<>>, <<>>, pct, TRUE))

(* Variant of AnchorFinish: the anchor is closed before the record count   *)
(* is sent.                                                                *)
AnchorFinishCloseFirst(log) ==
    log \o <<[op |-> "close", info |-> <<>>, rec |-> <<>>, pct |-> 0, ok |-> TRUE],
             [op |-> "output_record_count", info |-> <<>>, rec |-> <<>>, pct |-> 0,
              ok |-> TRUE]>>

(* output_anchor.output_record_count(True) then output_anchor.close()      *)
AnchorFinish(log) ==
    log \o <<AnchorEvent("output_record_count", <<>>, <<>>, 0, TRUE),
             AnchorEvent("close", <<>>, <<>>, 0, TRUE)>>

AnchorClosed(log) == \E i \in 1..Len(log) : log[i].op = "close"

EngineEvent(kind, type, text, pct) ==
    [kind |-> kind, type |-> type, text |-> text, pct |-> pct]

(* alteryx_engine.output_message(n_tool_id, EngineMessageType.error, text) *)
OutputError(log, text) == Append(log, EngineEvent("output_message", "error", text, 0))

(* alteryx_engine.output_tool_progress(n_tool_id, d_percent)               *)
OutputToolProgress(log, pct) ==
    Append(log, EngineEvent("output_tool_progress", "", "", pct))

-----------------------------------------------------------------------------
(* State after AyxPlugin.__init__: the five attributes hold field names    *)
(* (handle 0), nothing else is assigned.                                   *)
Init ==
    /\ pc = "constructed"
    /\ field_selection = NoAttr
    /\ output_anchor = FALSE
    /\ single_input = FALSE
    /\ record_info_in = <<>>
    /\ record_info_out = <<>>
    /\ record_creator = <<>>
    /\ record_copier = {}
    /\ handles = [key \in {NewFieldKeys[i] : i \in 1..5} |-> 0]
    /\ input_field = 0
    /\ anchorLog = <<>>
    /\ engineLog = <<>>
    /\ inRows = <<>>
    /\ lastCall = "__init__"
    /\ lastResult = "None"
    /\ inProgress = <<>>

(* pi_init: FieldSelect's text is kept when the element exists, else an    *)
(* error is reported; the output anchor is fetched in both cases.          *)
pi_init(str_xml) ==
    /\ pc = "constructed"
    /\ IF str_xml.has
       THEN /\ field_selection' = str_xml.text
            /\ UNCHANGED engineLog
       ELSE /\ engineLog' = OutputError(engineLog, "Please select field to analyze")
            /\ UNCHANGED field_selection
    /\ output_anchor' = TRUE
    /\ pc' = "configured"
    /\ lastCall' = "pi_init"
    /\ lastResult' = "None"
    /\ UNCHANGED <<single_input, record_info_in, record_info_out, record_creator,
                   record_copier, handles, input_field, anchorLog, inRows, inProgress>>

(* pi_add_incoming_connection: a new IncomingInterface, no creator and no  *)
(* copier yet.                                                             *)
pi_add_incoming_connection ==
    /\ pc = "configured"
    /\ single_input' = TRUE
    /\ record_creator' = <<>>
    /\ record_copier' = {}
    /\ pc' = "connected"
    /\ lastCall' = "pi_add_incoming_connection"
    /\ lastResult' = "single_input"
    /\ UNCHANGED <<field_selection, output_anchor, record_info_in, record_info_out,
                   handles, input_field, anchorLog, engineLog, inRows, inProgress>>

(* pi_add_outgoing_connection accepts the connection and changes nothing.  *)
pi_add_outgoing_connection ==
    /\ pc = "configured"
    /\ lastCall # "pi_add_outgoing_connection"
    /\ lastCall' = "pi_add_outgoing_connection"
    /\ lastResult' = "True"
    /\ UNCHANGED <<pc, field_selection, output_anchor, single_input, record_info_in,
                   record_info_out, record_creator, record_copier, handles,
                   input_field, anchorLog, engineLog, inRows, inProgress>>

(* What the engine does with the value a record-flow callback returns: it  *)
(* keeps delivering records after True, and stops after False or an        *)
(* exception.                                                              *)
AfterCall(result) == IF result = "True" THEN "streaming" ELSE "failed"

(* pi_push_all_records (no incoming connection): the argument             *)
(* self.xmsg('Missing Incoming Connection') is evaluated before            *)
(* output_message is called, and AyxPlugin has no attribute xmsg: the call *)
(* raises AttributeError, no message is sent and nothing is returned.      *)
pi_push_all_records ==
    /\ pc = "configured"
    /\ lastResult' = "AttributeError"
    /\ pc' = "failed"
    /\ lastCall' = "pi_push_all_records"
    /\ UNCHANGED <<field_selection, output_anchor, single_input, record_info_in,
                   record_info_out, record_creator, record_copier, handles,
                   input_field, anchorLog, engineLog, inRows, inProgress>>

(* The result of the lookup of the configured field in record_info_out.    *)
ResolveInput(info_out, selection) ==
    IF selection = NoAttr THEN "AttributeError"
    ELSE IF selection = PyNone THEN "TypeError"
    ELSE IF get_field_num(info_out, selection) = 0 THEN "FieldNotFound"
    ELSE "True"

(* ii_init: builds and publishes the output metadata, the creator and the  *)
(* copier, caches the five new fields and then the configured field.  With *)
(* strict naming a clashing add_field raises before anything is published. *)
ii_init(info_in, strict) ==
    /\ pc = "connected"
    /\ record_info_in' = info_in
    /\ lastCall' = "ii_init"
    /\ IF strict /\ NameClash(info_in)
       THEN /\ lastResult' = "DuplicateField"
            /\ pc' = "failed"
            /\ UNCHANGED <<record_info_out, record_creator, record_copier,
                           handles, input_field, anchorLog>>
       ELSE LET info_out == BuildOutputInfo(info_in)
                res      == ResolveInput(info_out, field_selection)
            IN  /\ record_info_out' = info_out
                /\ anchorLog' = AnchorInit(anchorLog, info_out)
                /\ record_creator' = EmptyRecord(info_out)
                /\ record_copier' = BuildCopier(info_in)
                /\ handles' = ResolveHandles(info_out)
                /\ input_field' = IF res = "True"
                                  THEN get_field_num(info_out, field_selection)
                                  ELSE input_field
                /\ lastResult' = res
                /\ pc' = AfterCall(res)
    /\ UNCHANGED <<field_selection, output_anchor, single_input, engineLog,
                   inRows, inProgress>>

(* The outcomes of get_as_string through the configured Field on the       *)
(* incoming record.  A Field of record_info_out beyond the incoming layout *)
(* reads outside the record: any of unset, some text, or a failure.        *)
ReadOutcomes(info_in, pos, in_record) ==
    IF pos \in 1..Len(info_in) THEN {get_as_string(in_record[pos])}
    ELSE {Null, Str(TextGood), Str(TextBad), Str(<<"!">>)}

ReadFailure == Str(<<"!">>)

(* The five set_from_string calls on the creator, in the code's order.     *)
WriteSentiment(info_out, h, creator, output, values) ==
    LET c1 == set_from_string(info_out, h["Sentiment_score"], creator, output)
        c2 == set_from_string(info_out, h["Negative_Score"], c1, values[1])
        c3 == set_from_string(info_out, h["Neutral_Score"], c2, values[2])
        c4 == set_from_string(info_out, h["Positive_Score"], c3, values[3])
    IN  set_from_string(info_out, h["Compound_Score"], c4, values[4])

(* Variant of PushReturn: the consumer's answer is ignored.                *)
PushReturnIgnoringAnswer(ok) == "True"

(* The value ii_push_record returns after push_record answered ok.         *)
PushReturn(ok) == IF ok THEN "True" ELSE "False"

(* ii_push_record: reset, copy, and for a non-null text analyse, write,    *)
(* finalize and push.  For a null text out_record is never assigned and    *)
(* the push_record call raises UnboundLocalError.                          *)
ii_push_record(in_record, ok) ==
    /\ pc = "streaming"
    /\ Len(inRows) + Len(inProgress) < MaxCalls
    /\ inRows' = Append(inRows, in_record)
    /\ lastCall' = "ii_push_record"
    /\ \E text \in ReadOutcomes(record_info_in, input_field, in_record) :
         LET copied == CopyRecord(record_copier, reset(record_creator), in_record)
             output == DictStr(polarity_scores(text.s))
             values == findall(output)
         IN  IF text = ReadFailure /\ ~(input_field \in 1..Len(record_info_in))
             THEN /\ record_creator' = copied
                  /\ lastResult' = "ReadError"
                  /\ UNCHANGED anchorLog
             ELSE IF text = Null
             THEN /\ record_creator' = copied
                  /\ lastResult' = "UnboundLocalError"
                  /\ UNCHANGED anchorLog
             ELSE LET out_record == WriteSentiment(record_info_out, handles,
                                                   copied, output, values)
                  IN  /\ record_creator' = out_record
                      /\ anchorLog' = AnchorPush(anchorLog, out_record, ok)
                      /\ lastResult' = PushReturn(ok)
    /\ pc' = AfterCall(lastResult')
    /\ UNCHANGED <<field_selection, output_anchor, single_input, record_info_in,
                   record_info_out, record_copier, handles, input_field,
                   engineLog, inProgress>>

(* ii_update_progress: the value goes to the engine and to the anchor.     *)
ii_update_progress(d_percent) ==
    /\ pc = "streaming"
    /\ Len(inRows) + Len(inProgress) < MaxCalls
    /\ inProgress' = Append(inProgress, d_percent)
    /\ engineLog' = OutputToolProgress(engineLog, d_percent)
    /\ anchorLog' = AnchorProgress(anchorLog, d_percent)
    /\ lastCall' = "ii_update_progress"
    /\ lastResult' = "None"
    /\ UNCHANGED <<pc, field_selection, output_anchor, single_input, record_info_in,
                   record_info_out, record_creator, record_copier, handles,
                   input_field, inRows>>

(* ii_close: end of the incoming stream; after a failed callback the       *)
(* engine may or may not still deliver it.                                 *)
ii_close ==
    /\ pc \in {"streaming", "failed"}
    /\ single_input
    /\ anchorLog' = AnchorFinish(anchorLog)
    /\ pc' = "closed"
    /\ lastCall' = "ii_close"
    /\ lastResult' = "None"
    /\ UNCHANGED <<field_selection, output_anchor, single_input, record_info_in,
                   record_info_out, record_creator, record_copier, handles,
                   input_field, engineLog, inRows, inProgress>>

(* pi_close: output_anchor.assert_close() checks that close() was called.  *)
pi_close ==
    /\ pc \in {"failed", "closed"}
    /\ lastResult' = IF AnchorClosed(anchorLog) THEN "None" ELSE "AssertCloseFailed"
    /\ pc' = "done"
    /\ lastCall' = "pi_close"
    /\ UNCHANGED <<field_selection, output_anchor, single_input, record_info_in,
                   record_info_out, record_creator, record_copier, handles,
                   input_field, anchorLog, engineLog, inRows, inProgress>>

Next ==
    \/ \E str_xml \in Configs : pi_init(str_xml)
    \/ pi_add_incoming_connection
    \/ pi_add_outgoing_connection
    \/ pi_push_all_records
    \/ \E info_in \in InputSchemas, strict \in BOOLEAN : ii_init(info_in, strict)
    \/ \E in_record \in Records(record_info_in), ok \in BOOLEAN :
           ii_push_record(in_record, ok)
    \/ \E d_percent \in Percents : ii_update_progress(d_percent)
    \/ ii_close
    \/ pi_close

Spec == Init /\ [][Next]_vars

-----------------------------------------------------------------------------
(* Vocabulary of the properties.                                           *)

Ops(op) == {i \in 1..Len(anchorLog) : anchorLog[i].op = op}

NIn == Len(record_info_in)

(* The record delivered by the latest ii_push_record call.                 *)
LastRow == inRows[Len(inRows)]

(* The configured field is a field of the incoming record and was cached.  *)
TextFieldResolved == input_field \in 1..NIn

LastEvent == anchorLog[Len(anchorLog)]

(* The latest callback was ii_push_record and it pushed a record.          *)
RowEmitted == /\ lastCall = "ii_push_record"
              /\ lastResult \in {"True", "False"}

SelectionIsName == field_selection \notin {NoAttr, PyNone}

-----------------------------------------------------------------------------
(* C1: a row whose configured text field is null is passed through: the    *)
(* call returns success and has pushed one row that carries the input      *)
(* row's fields and five unset sentiment fields.                           *)
C1_NullRowPassedThrough ==
    (lastCall = "ii_push_record" /\ TextFieldResolved /\ LastRow[input_field] = Null)
    => /\ lastResult = "True"
       /\ Cardinality(Ops("push_record")) = Len(inRows)
       /\ LastEvent.op = "push_record"
       /\ \A i \in 1..NIn : LastEvent.rec[i] = LastRow[i]
       /\ \A i \in (NIn + 1)..(NIn + 5) : LastEvent.rec[i] = Null

(* C2: without a FieldSelect element pi_init reports an error and, for the *)
(* rest of the run, no output schema is published and no row is pushed.    *)
C2_NoFieldSelectNoProcessing ==
    (field_selection = NoAttr /\ pc # "constructed")
    => /\ \E i \in 1..Len(engineLog) :
              /\ engineLog[i].kind = "output_message"
              /\ engineLog[i].type = "error"
       /\ Ops("init") = {}
       /\ Ops("push_record") = {}

(* C3: run without incoming connection, pi_push_all_records reports        *)
(* 'Missing Incoming Connection', returns False and leaves the anchor      *)
(* untouched.                                                              *)
C3_MissingConnectionReported ==
    lastCall = "pi_push_all_records"
    => /\ \E i \in 1..Len(engineLog) :
              /\ engineLog[i].type = "error"
              /\ engineLog[i].text = "Missing Incoming Connection"
       /\ lastResult = "False"
       /\ Ops("init") = {}
       /\ Ops("push_record") = {}

(* C4: an emitted row carries the input row's values at positions 1..n,    *)
(* whatever the names of the input fields.                                 *)
C4_OriginalFieldsVerbatim ==
    (RowEmitted /\ TextFieldResolved /\ LastRow[input_field] # Null)
    => \A i \in 1..NIn : LastEvent.rec[i] = LastRow[i]

(* The five fields the output metadata is meant to end with.               *)
FiveFields ==
    <<FieldDef("Sentiment_Output", "v_wstring", data_size),
      FieldDef("Negative_Score", "double", 0),
      FieldDef("Neutral_Score", "double", 0),
      FieldDef("Positive_Score", "double", 0),
      FieldDef("Compound_Score", "double", 0)>>

(* C5 as stated: every published output schema is the input schema         *)
(* followed by exactly the five named fields.                              *)
C5_OutputSchemaExact ==
    \A e \in Ops("init") : anchorLog[e].info = record_info_in \o FiveFields

(* C5, amended: every published output schema has n+5 fields, starts with  *)
(* the n input fields in their order and ends with five fields of the      *)
(* fixed types (string of capacity 100, then four doubles) in the fixed    *)
(* order; a new field carries its fixed name when no input field has that  *)
(* name, and otherwise a name that no other field of the schema has.       *)
C5_OutputSchemaShape ==
    \A e \in Ops("init") :
        LET out == anchorLog[e].info
        IN  /\ Len(out) = NIn + 5
            /\ SubSeq(out, 1, NIn) = record_info_in
            /\ \A j \in 1..5 :
                  /\ out[NIn + j].type = FiveFields[j].type
                  /\ out[NIn + j].size = FiveFields[j].size
                  /\ ~HasField(record_info_in, FiveFields[j].name)
                        => out[NIn + j].name = FiveFields[j].name
                  /\ \A i \in 1..Len(out) :
                        i # NIn + j => out[i].name # out[NIn + j].name

(* C5 witness: a schema was published for an input schema that already    *)
(* has a field named like a new field.                                     *)
C5_Witness == Ops("init") # {} /\ NameClash(record_info_in)

(* C6: whenever pi_close runs, the outgoing connection has been closed.    *)
C6_ClosedBeforePiClose == lastCall = "pi_close" => AnchorClosed(anchorLog)

(* C7: a rejected push makes ii_push_record return False, the call pushes  *)
(* the row once only, and no row is pushed after a rejected one.           *)
C7_RejectionIsTerminal ==
    /\ \A i \in Ops("push_record") :
          ~anchorLog[i].ok => \A j \in Ops("push_record") : j <= i
    /\ Cardinality(Ops("push_record")) <= Len(inRows)
    /\ (lastCall = "ii_push_record" /\ Len(anchorLog) > 0
          /\ LastEvent.op = "push_record" /\ ~LastEvent.ok)
       => lastResult = "False"

(* C7 witness: a row pushed after an accepted one was rejected.            *)
C7_Witness ==
    /\ lastCall = "ii_push_record"
    /\ lastResult = "False"
    /\ Cardinality(Ops("push_record")) = 2
    /\ ~LastEvent.ok

(* C8: a configured name that is not a field of the input schema makes     *)
(* ii_init fail, and no row is then delivered for processing.              *)
C8_SelectionResolvedAgainstInput ==
    (SelectionIsName /\ record_info_in # <<>>
        /\ ~HasField(record_info_in, field_selection))
    => /\ lastCall = "ii_init" => lastResult # "True"
       /\ pc # "streaming"
       /\ inRows = <<>>

(* C9: every pushed row is preceded on the anchor by the publication of    *)
(* the output schema.                                                      *)
C9_SchemaBeforeRows ==
    \A i \in Ops("push_record") : \E j \in Ops("init") : j < i

(* C9 witness: a row has been pushed.                                      *)
C9_Witness == Ops("push_record") # {}

(* C10: ii_close sends output_record_count(True) and then close, once      *)
(* each, and no row is pushed after the close.                             *)
C10_CountThenCloseOnce ==
    /\ Cardinality(Ops("close")) <= 1
    /\ Cardinality(Ops("output_record_count")) <= 1
    /\ \A i \in Ops("close") :
          /\ i > 1 /\ anchorLog[i - 1].op = "output_record_count"
          /\ \A j \in Ops("push_record") : j < i
    /\ lastCall = "ii_close"
       => /\ Len(anchorLog) >= 2
          /\ LastEvent.op = "close"
          /\ Cardinality(Ops("output_record_count")) = 1

(* C10 witness: the stream ended by ii_close after rows were pushed.       *)
C10_Witness == lastCall = "ii_close" /\ Ops("push_record") # {}

-----------------------------------------------------------------------------
ErrorReported ==
    \E i \in 1..Len(engineLog) :
        engineLog[i].kind = "output_message" /\ engineLog[i].type = "error"

(* C11: with an empty FieldSelect element the adapter reports a            *)
(* configuration error and there is no call at all on the output anchor.   *)
C11_EmptyFieldSelectStops ==
    field_selection = PyNone => (ErrorReported /\ anchorLog = <<>>)

(* The per-stream state read off the adapter: 0 Unconfigured (no anchor    *)
(* fetched), 1 Configured, 2 SchemaNegotiated (output schema published),   *)
(* 3 Streaming (a row was delivered), 4 Closed (anchor closed).            *)
StreamRank ==
    IF AnchorClosed(anchorLog) THEN 4
    ELSE IF inRows # <<>> THEN 3
    ELSE IF Ops("init") # {} THEN 2
    ELSE IF output_anchor THEN 1
    ELSE 0

(* A failure has occurred: a callback failed, a push was rejected, or the  *)
(* configuration had no FieldSelect.                                       *)
FailureSeen ==
    \/ pc = "failed"
    \/ \E i \in Ops("push_record") : ~anchorLog[i].ok
    \/ field_selection = NoAttr /\ pc # "constructed"

(* C12: no callback moves the stream state backwards, and after a failure  *)
(* or the end of the stream no row is delivered or pushed any more.        *)
C12_ForwardOnly ==
    [][ /\ StreamRank' >= StreamRank
        /\ (FailureSeen \/ pc \in {"closed", "done"})
           => /\ inRows' = inRows
              /\ Ops("push_record")' = Ops("push_record") ]_vars

(* C12 witness: a stream that was closed after a rejected push.            *)
C12_Witness ==
    /\ pc = "closed"
    /\ \E i \in Ops("push_record") : ~anchorLog[i].ok

-----------------------------------------------------------------------------
IsText(t) == t # Null /\ t # ReadFailure

KeyAt(i) == CHOOSE j \in 1..5 : handles[NewFieldKeys[j]] = i

Written(i) == \E j \in 1..5 : handles[NewFieldKeys[j]] = i

(* The value a field receives for the j-th sentiment output, taken from    *)
(* the analyzer's scores directly.                                         *)
DirectValue(f, j, snt) ==
    LET score == IF j = 2 THEN snt.neg ELSE IF j = 3 THEN snt.neu
                 ELSE IF j = 4 THEN snt.pos ELSE snt.compound
        txt   == IF j = 1 THEN DictStr(snt) ELSE FloatStr(score)
    IN  IF f.type = "double"
        THEN IF j = 1 THEN Null ELSE Dbl(score)
        ELSE Str(IF Len(txt) > f.size THEN SubSeq(txt, 1, f.size) ELSE txt)

(* The record built from one input row alone, t being what was read as its *)
(* text: a field reached through a cached handle holds the sentiment       *)
(* output of t, any other input position the row's value, the rest unset.  *)
BuiltFrom(row, t) ==
    [i \in 1..Len(record_info_out) |->
        IF IsText(t) /\ Written(i)
        THEN DirectValue(record_info_out[i], KeyAt(i), polarity_scores(t.s))
        ELSE IF i <= NIn THEN row[i] ELSE Null]

(* C13: the row a fresh instance emits for its first input row is the row  *)
(* any other fresh instance emits for the same configuration, schema and   *)
(* row, whatever that instance reads as the row's text.                    *)
C13_FreshInstancesAgree ==
    (RowEmitted /\ Len(inRows) = 1)
    => \A t \in ReadOutcomes(record_info_in, input_field, LastRow) :
           IsText(t) /\ LastEvent.rec = BuiltFrom(LastRow, t)

IsAnchorProgress(e) == e.op = "update_progress"

IsToolProgress(e) == e.kind = "output_tool_progress"

Pcts(events) == [i \in 1..Len(events) |-> events[i].pct]

(* C14: the values sent to output_tool_progress and to the anchor's        *)
(* update_progress are, in order, exactly the values the host reported,    *)
(* and a progress report pushes no row and publishes no schema.            *)
C14_ProgressRelayed ==
    /\ [](/\ Pcts(SelectSeq(anchorLog, IsAnchorProgress)) = inProgress
          /\ Pcts(SelectSeq(engineLog, IsToolProgress)) = inProgress)
    /\ [][ inProgress' # inProgress
           => /\ Len(anchorLog') = Len(anchorLog) + 1
              /\ Len(engineLog') = Len(engineLog) + 1
              /\ Ops("push_record")' = Ops("push_record")
              /\ Ops("init")' = Ops("init")
              /\ record_info_out' = record_info_out ]_vars

(* C14 witness: a progress of one half was reported after a row was pushed. *)
C14_Witness ==
    /\ lastCall = "ii_update_progress"
    /\ inProgress = <<50>>
    /\ Ops("push_record") # {}

(* C15: after a successful ii_init the five cached handles are the five    *)
(* positions after the n input fields, in order, and the text handle is    *)
(* one of the n input positions.                                           *)
C15_HandlePositions ==
    (lastCall = "ii_init" /\ lastResult = "True")
    => /\ \A j \in 1..5 : handles[NewFieldKeys[j]] = NIn + j
       /\ input_field \in 1..NIn

(* C16: in an emitted row the fields named Negative_Score, Neutral_Score,  *)
(* Positive_Score and Compound_Score hold the analyzer's four scores, the  *)
(* field named Sentiment_Output holds the whole textual result, and the    *)
(* first four numbers extracted from that text are the four scores.        *)
C16_ScoresWritten ==
    (RowEmitted /\ TextFieldResolved /\ LastRow[input_field] # Null)
    => LET snt    == polarity_scores(get_as_string(LastRow[input_field]).s)
           At(nm) == LastEvent.rec[get_field_num(record_info_out, nm)]
           values == findall(DictStr(snt))
       IN  /\ At("Sentiment_Output") = Str(DictStr(snt))
           /\ At("Negative_Score") = Dbl(snt.neg)
           /\ At("Neutral_Score") = Dbl(snt.neu)
           /\ At("Positive_Score") = Dbl(snt.pos)
           /\ At("Compound_Score") = Dbl(snt.compound)
           /\ Len(values) >= 4
           /\ ParseDouble(values[1]) = Dbl(snt.neg)
           /\ ParseDouble(values[2]) = Dbl(snt.neu)
           /\ ParseDouble(values[3]) = Dbl(snt.pos)
           /\ ParseDouble(values[4]) = Dbl(snt.compound)

(* C17: after every ii_push_record call the row buffer is what the input   *)
(* row of that call alone gives (nothing of an earlier call is left in     *)
(* it), and an emitted row is that buffer.                                 *)
C17_BufferFromCurrentRow ==
    lastCall = "ii_push_record"
    => \E t \in ReadOutcomes(record_info_in, input_field, LastRow) :
           /\ record_creator = BuiltFrom(LastRow, t)
           /\ RowEmitted => (IsText(t) /\ LastEvent.rec = record_creator)

(* C17 witness: a second row, different from the first, was emitted.       *)
C17_Witness ==
    /\ RowEmitted
    /\ Len(inRows) = 2
    /\ inRows[1] # inRows[2]

IsPush(e) == e.op = "push_record"

Pushed == SelectSeq(anchorLog, IsPush)

AllAccepted == \A i \in Ops("push_record") : anchorLog[i].ok

====
